---- MODULE Spec2Model ----
(***************************************************************************)
(* Event-sourced Issue aggregate: the in-memory event store of             *)
(* project_management/eventsourcing.py and the command handlers built on   *)
(* it (aggregate_root, extracted_state, monad, polymorphic).               *)
(*                                                                         *)
(* One handle call is three steps: Call (the handler is invoked and loads  *)
(* the stream: EventStore.get and the replay), Decide (the transition      *)
(* method: guard, then the event is triggered) and Save (EventStore.put).  *)
(* Calls of different handlers interleave between these steps; the store   *)
(* is the only shared object.                                              *)
(*                                                                         *)
(* aggregate_root.py names the repository's replay `get` and the           *)
(* aggregate's trigger `trigger_event`; the model binds them to            *)
(* Repository.apply and Aggregate._trigger_event, the only replay and      *)
(* trigger that project_management/eventsourcing.py defines.               *)
(***************************************************************************)
EXTENDS Integers, Sequences, FiniteSets, TLC

\* ---------------------------------------------------------------- bounds
MaxEvents == 5
MaxRaceEvents == 3
NumHandlers == 2
NumIssues == 2
MaxVersion == 2
MaxStored == 3
MaxFold == 2
MaxTimestamp == 2
MaxPending == 2
MaxLimit == 1

Handlers == 1..NumHandlers
IssueIDs == 1..NumIssues

\* ------------------------------------------------------- commands, events
Variants == {"aggregate_root", "extracted_state", "monad", "polymorphic"}

Commands ==
    {"CreateIssue", "ResolveIssue", "CloseIssue", "ReopenIssue",
     "StartIssueProgress", "StopIssueProgress"}

EventKinds ==
    {"IssueOpened", "IssueResolved", "IssueClosed", "IssueReopened",
     "IssueProgressStarted", "IssueProgressStopped"}

\* project_management.State, with None for the unset status
State == {"OPEN", "CLOSED", "IN_PROGRESS", "REOPENED", "RESOLVED"}

\* an event: the envelope of eventsourcing.Event and its class (kind);
\* the timestamp is never read by the store or by a handler
Event(id, version, kind) ==
    [originator_id |-> id, originator_version |-> version, kind |-> kind]

\* the arguments an exception is raised with: a text, an issue id, a command
\* object (its class and its id field), an IssueState object (its id field)
Text(name) == [tag |-> "str", name |-> name, id |-> 0]

ID(id) == [tag |-> "IssueID", name |-> "-", id |-> id]

Command(cmd, id) == [tag |-> "Command", name |-> cmd, id |-> id]

IssueState(id) == [tag |-> "IssueState", name |-> "-", id |-> id]

\* variant: the handler module under test; in_memory: EventStore._in_memory;
\* call: each handler's call in progress; event_sourcery: the streams of the
\* event_sourcery store that functional, exposed_queries, duck_typing and
\* repository publish to; returned: what the last direct call of the
\* EventStore API returned
VARIABLES variant, in_memory, call, event_sourcery, returned

vars == <<variant, in_memory, call, event_sourcery, returned>>

\* ------------------------------------------------------------ EventStore
\* self._in_memory is a defaultdict(list): reading a missing key inserts it
Touch(store, id) ==
    IF id \in DOMAIN store THEN store ELSE store @@ (id :> <<>>)

Stream(store, id) ==
    IF id \in DOMAIN store THEN store[id] ELSE <<>>

\* mutant: the sort key is the timestamp
RECURSIVE InsertByTimestamp(_, _)
InsertByTimestamp(e, s) ==
    IF s = <<>> THEN <<e>>
    ELSE IF Head(s).timestamp <= e.timestamp
         THEN <<Head(s)>> \o InsertByTimestamp(e, Tail(s))
         ELSE <<e>> \o s

RECURSIVE InsertByVersion(_, _)
InsertByVersion(e, s) ==
    IF s = <<>> THEN <<e>>
    ELSE IF Head(s).originator_version <= e.originator_version
         THEN <<Head(s)>> \o InsertByVersion(e, Tail(s))
         ELSE <<e>> \o s

\* mutant: the events are returned in the order of the list
sorted_as_inserted(s) == s

\* sorted(..., key=lambda e: e.originator_version): a stable sort
RECURSIVE sorted(_)
sorted(s) ==
    IF s = <<>> THEN <<>>
    ELSE InsertByVersion(s[Len(s)], sorted(SubSeq(s, 1, Len(s) - 1)))

\* EventStore.get(originator_id) with no bounds, ascending, no limit
EventStore_get(store, id) == sorted(Stream(store, id))

\* event_is_valid of EventStore.get: `if after_version and not (version >
\* after_version)`, `if to_version and not (version <= to_version)`. An
\* Optional[int] argument is the set of at most one integer, {} for None;
\* `if x and ...` is false for None and for 0.
event_is_valid(version, after_version, to_version) ==
    /\ \A a \in after_version : a # 0 => version > a
    /\ \A t \in to_version : t # 0 => version <= t

\* filter(event_is_valid, self._in_memory[originator_id])
RECURSIVE filter(_, _, _)
filter(s, after_version, to_version) ==
    IF s = <<>> THEN <<>>
    ELSE (IF event_is_valid(Head(s).originator_version,
                            after_version, to_version)
          THEN <<Head(s)>> ELSE <<>>)
             \o filter(Tail(s), after_version, to_version)

\* the list s from its last element to its first
reversed(s) == [i \in 1..Len(s) |-> s[Len(s) + 1 - i]]

\* EventStore.get with all its arguments: sorted(valid_events, reverse=desc,
\* key=...)[:limit]; reverse=True keeps events of equal version in the
\* order of the list, and [:limit] with limit None is the whole list
EventStore_get_bounded(store, id, after_version, to_version, desc, limit) ==
    LET valid_events == filter(Stream(store, id), after_version, to_version)
        ordered == IF desc THEN reversed(sorted(reversed(valid_events)))
                   ELSE sorted(valid_events)
        n == IF limit = {} THEN Len(ordered)
             ELSE LET l == CHOOSE x \in limit : TRUE
                  IN  IF l < Len(ordered) THEN l ELSE Len(ordered)
    IN  SubSeq(ordered, 1, n)

\* mutant: the loop body appends every event twice
RECURSIVE EventStore_put_twice(_, _)
EventStore_put_twice(store, events) ==
    IF events = <<>> THEN store
    ELSE LET e == Head(events)
             s == Touch(store, e.originator_id)
         IN  EventStore_put_twice(
                 [s EXCEPT ![e.originator_id] = Append(Append(@, e), e)],
                 Tail(events))

\* mutant: every event is appended to the list of the first key
RECURSIVE EventStore_put_one_list(_, _)
EventStore_put_one_list(store, events) ==
    IF events = <<>> THEN store
    ELSE LET s == Touch(store, 1)
         IN  EventStore_put_one_list(
                 [s EXCEPT ![1] = Append(@, Head(events))], Tail(events))

\* EventStore.put(*events): each event is appended to its originator's list
RECURSIVE EventStore_put(_, _)
EventStore_put(store, events) ==
    IF events = <<>> THEN store
    ELSE LET e == Head(events)
             s == Touch(store, e.originator_id)
         IN  EventStore_put(
                 [s EXCEPT ![e.originator_id] = Append(@, e)], Tail(events))

\* EventStore.actual_version: None for a key the dict does not hold; max() of
\* an empty list raises ValueError. The Optional[int] returned is the set of
\* at most one integer, {} for None.
EventStore_actual_version(store, id) ==
    IF id \notin DOMAIN store THEN [value |-> {}, exc |-> "-"]
    ELSE IF store[id] = <<>> THEN [value |-> {}, exc |-> "ValueError"]
    ELSE LET s == store[id]
             max == CHOOSE m \in {s[i].originator_version : i \in 1..Len(s)} :
                        \A i \in 1..Len(s) : s[i].originator_version <= m
         IN  [value |-> {max}, exc |-> "-"]

\* ------------------------------------------------------- aggregate_root.py
aggregate_root_can_create(state) == state # "OPEN"

aggregate_root_can_start(state) == state \in {"OPEN", "REOPENED"}

\* mutant: RESOLVED left out of the valid states
aggregate_root_can_close_no_resolved(state) ==
    state \in {"OPEN", "IN_PROGRESS", "REOPENED"}

aggregate_root_can_close(state) ==
    state \in {"OPEN", "IN_PROGRESS", "REOPENED", "RESOLVED"}

aggregate_root_can_reopen(state) == state \in {"CLOSED", "RESOLVED"}

aggregate_root_can_stop(state) == state = "IN_PROGRESS"

aggregate_root_can_resolve(state) ==
    state \in {"OPEN", "REOPENED", "IN_PROGRESS"}

\* mutant: the ProgressStopped branch sets the state of ProgressStarted
aggregate_root_apply_stopped_in_progress(state, kind) ==
    CASE kind = "IssueOpened" -> "OPEN"
      [] kind = "IssueProgressStarted" -> "IN_PROGRESS"
      [] kind = "IssueProgressStopped" -> "IN_PROGRESS"
      [] kind = "IssueReopened" -> "REOPENED"
      [] kind = "IssueResolved" -> "RESOLVED"
      [] kind = "IssueClosed" -> "CLOSED"
      [] OTHER -> state

\* Issue.apply: the state an event folds to (the version is set by
\* Aggregate.apply, see aggregate_root_load)
aggregate_root_apply(state, kind) ==
    CASE kind = "IssueOpened" -> "OPEN"
      [] kind = "IssueProgressStarted" -> "IN_PROGRESS"
      [] kind = "IssueProgressStopped" -> "OPEN"
      [] kind = "IssueReopened" -> "REOPENED"
      [] kind = "IssueResolved" -> "RESOLVED"
      [] kind = "IssueClosed" -> "CLOSED"
      [] OTHER -> state

\* CommandHandler.__call__ dispatch and Issue.create .. Issue.resolve: the
\* event class the transition method triggers, or the exception it raises
aggregate_root_transition(cmd, state) ==
    CASE cmd = "CreateIssue" ->
           IF aggregate_root_can_create(state)
           THEN "IssueOpened" ELSE "InvalidTransition"
      [] cmd = "CloseIssue" ->
           IF aggregate_root_can_close(state)
           THEN "IssueClosed" ELSE "InvalidTransition"
      [] cmd = "StartIssueProgress" ->
           IF aggregate_root_can_start(state)
           THEN "IssueProgressStarted" ELSE "InvalidTransition"
      [] cmd = "StopIssueProgress" ->
           IF aggregate_root_can_stop(state)
           THEN "IssueProgressStopped" ELSE "InvalidTransition"
      [] cmd = "ReopenIssue" ->
           IF aggregate_root_can_reopen(state)
           THEN "IssueReopened" ELSE "InvalidTransition"
      [] cmd = "ResolveIssue" ->
           IF aggregate_root_can_resolve(state)
           THEN "IssueResolved" ELSE "InvalidTransition"

\* ------------------------------------------------------ extracted_state.py
\* IssueState.open .. IssueState.resolved are comparisons of _status
extracted_state_can_create(status) == ~(status = "OPEN")

\* mutant: the reopened status is forgotten
extracted_state_can_start_open_only(status) == status = "OPEN"

extracted_state_can_start(status) == status = "OPEN" \/ status = "REOPENED"

extracted_state_can_close(status) ==
    \/ status = "OPEN"
    \/ status = "IN_PROGRESS"
    \/ status = "REOPENED"
    \/ status = "RESOLVED"

\* mutant: a reopened issue can be reopened again
extracted_state_can_reopen_again(status) ==
    status = "CLOSED" \/ status = "RESOLVED" \/ status = "REOPENED"

extracted_state_can_reopen(status) ==
    status = "CLOSED" \/ status = "RESOLVED"

extracted_state_can_stop(status) == status = "IN_PROGRESS"

extracted_state_can_resolve(status) ==
    status = "OPEN" \/ status = "REOPENED" \/ status = "IN_PROGRESS"

\* IssueState.apply
extracted_state_apply(status, kind) ==
    CASE kind = "IssueOpened" -> "OPEN"
      [] kind = "IssueProgressStarted" -> "IN_PROGRESS"
      [] kind = "IssueProgressStopped" -> "OPEN"
      [] kind = "IssueReopened" -> "REOPENED"
      [] kind = "IssueResolved" -> "RESOLVED"
      [] kind = "IssueClosed" -> "CLOSED"
      [] OTHER -> status

\* CommandHandler dispatch and Issue.create .. Issue.resolve
extracted_state_transition(cmd, status) ==
    CASE cmd = "CreateIssue" ->
           IF extracted_state_can_create(status)
           THEN "IssueOpened" ELSE "InvalidTransition"
      [] cmd = "CloseIssue" ->
           IF extracted_state_can_close(status)
           THEN "IssueClosed" ELSE "InvalidTransition"
      [] cmd = "StartIssueProgress" ->
           IF extracted_state_can_start(status)
           THEN "IssueProgressStarted" ELSE "InvalidTransition"
      [] cmd = "StopIssueProgress" ->
           IF extracted_state_can_stop(status)
           THEN "IssueProgressStopped" ELSE "InvalidTransition"
      [] cmd = "ReopenIssue" ->
           IF extracted_state_can_reopen(status)
           THEN "IssueReopened" ELSE "InvalidTransition"
      [] cmd = "ResolveIssue" ->
           IF extracted_state_can_resolve(status)
           THEN "IssueResolved" ELSE "InvalidTransition"

\* ---------------------------------------------------------------- monad.py
\* the `valid` set each bind(...).to_state(...) chain collects
monad_create_valid == {"None"}

monad_start_valid == {"OPEN", "REOPENED"}

monad_stop_valid == {"IN_PROGRESS"}

monad_close_valid == {"OPEN", "IN_PROGRESS", "REOPENED", "RESOLVED"}

monad_reopen_valid == {"CLOSED", "RESOLVED"}

\* mutant: the last to_state of the chain is missing
monad_resolve_valid_short == {"OPEN", "REOPENED"}

monad_resolve_valid == {"OPEN", "REOPENED", "IN_PROGRESS"}

\* apply(event, issue): state starts as None for an event of no known class
monad_apply(state, kind) ==
    CASE kind = "IssueOpened" -> "OPEN"
      [] kind = "IssueProgressStarted" -> "IN_PROGRESS"
      [] kind = "IssueProgressStopped" -> "OPEN"
      [] kind = "IssueReopened" -> "REOPENED"
      [] kind = "IssueResolved" -> "RESOLVED"
      [] kind = "IssueClosed" -> "CLOSED"
      [] OTHER -> "None"

\* bind(func).operation on an Issue (never a Failure on entry): Failure when
\* the state is not valid, else func's event; CommandHandler.__call__ raises
\* InvalidTransition on Failure
monad_transition(cmd, state) ==
    CASE cmd = "CreateIssue" ->
           IF state \notin monad_create_valid
           THEN "InvalidTransition" ELSE "IssueOpened"
      [] cmd = "ResolveIssue" ->
           IF state \notin monad_resolve_valid
           THEN "InvalidTransition" ELSE "IssueResolved"
      [] cmd = "CloseIssue" ->
           IF state \notin monad_close_valid
           THEN "InvalidTransition" ELSE "IssueClosed"
      [] cmd = "ReopenIssue" ->
           IF state \notin monad_reopen_valid
           THEN "InvalidTransition" ELSE "IssueReopened"
      [] cmd = "StartIssueProgress" ->
           IF state \notin monad_start_valid
           THEN "InvalidTransition" ELSE "IssueProgressStarted"
      [] cmd = "StopIssueProgress" ->
           IF state \notin monad_stop_valid
           THEN "InvalidTransition" ELSE "IssueProgressStopped"

\* ---------------------------------------------------------- polymorphic.py
\* mutant: Closed overrides nothing, so every method on it raises
polymorphic_Issue_closed_final(cls, method) ==
    CASE cls = "Init" /\ method = "open" -> "Open"
      [] cls = "Open" /\ method = "start" -> "InProgress"
      [] cls = "Open" /\ method = "close" -> "Closed"
      [] cls = "Open" /\ method = "resolve" -> "Resolved"
      [] cls = "InProgress" /\ method = "stop" -> "Open"
      [] cls = "InProgress" /\ method = "close" -> "Closed"
      [] cls = "InProgress" /\ method = "resolve" -> "Resolved"
      [] cls = "Resolved" /\ method = "close" -> "Closed"
      [] cls = "Resolved" /\ method = "reopen" -> "Open"
      [] OTHER -> "InvalidTransition"

\* the classes Init, Open, InProgress, Closed, Resolved: what calling
\* `method` on an instance of `cls` returns; a method the class does not
\* override is the Protocol's, which raises InvalidTransition
polymorphic_Issue(cls, method) ==
    CASE cls = "Init" /\ method = "open" -> "Open"
      [] cls = "Open" /\ method = "start" -> "InProgress"
      [] cls = "Open" /\ method = "close" -> "Closed"
      [] cls = "Open" /\ method = "resolve" -> "Resolved"
      [] cls = "InProgress" /\ method = "stop" -> "Open"
      [] cls = "InProgress" /\ method = "close" -> "Closed"
      [] cls = "InProgress" /\ method = "resolve" -> "Resolved"
      [] cls = "Closed" /\ method = "reopen" -> "Open"
      [] cls = "Resolved" /\ method = "close" -> "Closed"
      [] cls = "Resolved" /\ method = "reopen" -> "Open"
      [] OTHER -> "InvalidTransition"

\* CommandHandler.get_issue: the method replay calls for an event class
polymorphic_replay_method(kind) ==
    CASE kind = "IssueOpened" -> "open"
      [] kind = "IssueProgressStarted" -> "start"
      [] kind = "IssueProgressStopped" -> "stop"
      [] kind = "IssueReopened" -> "reopen"
      [] kind = "IssueResolved" -> "resolve"
      [] kind = "IssueClosed" -> "close"

\* CommandHandler.process: the method a command calls and the event class
\* it returns when the call did not raise
polymorphic_process_method(cmd) ==
    CASE cmd = "CreateIssue" -> "open"
      [] cmd = "StartIssueProgress" -> "start"
      [] cmd = "StopIssueProgress" -> "stop"
      [] cmd = "CloseIssue" -> "close"
      [] cmd = "ReopenIssue" -> "reopen"
      [] cmd = "ResolveIssue" -> "resolve"

polymorphic_process_event(cmd) ==
    CASE cmd = "CreateIssue" -> "IssueOpened"
      [] cmd = "StartIssueProgress" -> "IssueProgressStarted"
      [] cmd = "StopIssueProgress" -> "IssueProgressStopped"
      [] cmd = "CloseIssue" -> "IssueClosed"
      [] cmd = "ReopenIssue" -> "IssueReopened"
      [] cmd = "ResolveIssue" -> "IssueResolved"

\* the argument the Protocol's method raises InvalidTransition with: the
\* name of the method, 'create' for open
polymorphic_InvalidTransition(method) ==
    <<Text(IF method = "open" THEN "create" ELSE method)>>

polymorphic_transition(cmd, cls) ==
    IF polymorphic_Issue(cls, polymorphic_process_method(cmd))
           = "InvalidTransition"
    THEN "InvalidTransition"
    ELSE polymorphic_process_event(cmd)

\* ------------------------------------------------------------ functional.py
\* IssueState.open .. IssueState.resolved are comparisons of _status
functional_can_create(status) == ~(status = "OPEN")

functional_can_start(status) == status = "OPEN" \/ status = "REOPENED"

functional_can_stop(status) == status = "IN_PROGRESS"

functional_can_close(status) ==
    \/ status = "OPEN"
    \/ status = "IN_PROGRESS"
    \/ status = "REOPENED"
    \/ status = "RESOLVED"

functional_can_reopen(status) == status = "CLOSED" \/ status = "RESOLVED"

functional_can_resolve(status) ==
    status = "OPEN" \/ status = "REOPENED" \/ status = "IN_PROGRESS"

\* IssueState.apply: the status (the version is counted, see functional_step)
functional_apply(status, kind) ==
    CASE kind = "IssueOpened" -> "OPEN"
      [] kind = "IssueProgressStarted" -> "IN_PROGRESS"
      [] kind = "IssueProgressStopped" -> "OPEN"
      [] kind = "IssueReopened" -> "REOPENED"
      [] kind = "IssueResolved" -> "RESOLVED"
      [] kind = "IssueClosed" -> "CLOSED"
      [] OTHER -> status

\* CommandHandler.process and Create .. Resolve: the event class returned, or
\* the exception raised
functional_transition(cmd, status) ==
    CASE cmd = "CreateIssue" ->
           IF functional_can_create(status)
           THEN "IssueOpened" ELSE "InvalidTransition"
      [] cmd = "StartIssueProgress" ->
           IF functional_can_start(status)
           THEN "IssueProgressStarted" ELSE "InvalidTransition"
      [] cmd = "StopIssueProgress" ->
           IF functional_can_stop(status)
           THEN "IssueProgressStopped" ELSE "InvalidTransition"
      [] cmd = "CloseIssue" ->
           IF functional_can_close(status)
           THEN "IssueClosed" ELSE "InvalidTransition"
      [] cmd = "ReopenIssue" ->
           IF functional_can_reopen(status)
           THEN "IssueReopened" ELSE "InvalidTransition"
      [] cmd = "ResolveIssue" ->
           IF functional_can_resolve(status)
           THEN "IssueResolved" ELSE "InvalidTransition"

\* ------------------------------------------------------- exposed_queries.py
exposed_queries_can_create(state) == state # "OPEN"

exposed_queries_can_start(state) == state \in {"OPEN", "REOPENED"}

exposed_queries_can_close(state) ==
    state \in {"OPEN", "IN_PROGRESS", "REOPENED", "RESOLVED"}

exposed_queries_can_reopen(state) == state \in {"CLOSED", "RESOLVED"}

exposed_queries_can_stop(state) == state = "IN_PROGRESS"

exposed_queries_can_resolve(state) ==
    state \in {"OPEN", "REOPENED", "IN_PROGRESS"}

\* IssueProjection.apply and the Issue method it calls
exposed_queries_apply(state, kind) ==
    CASE kind = "IssueOpened" -> "OPEN"
      [] kind = "IssueProgressStarted" -> "IN_PROGRESS"
      [] kind = "IssueProgressStopped" -> "OPEN"
      [] kind = "IssueReopened" -> "REOPENED"
      [] kind = "IssueResolved" -> "RESOLVED"
      [] kind = "IssueClosed" -> "CLOSED"
      [] OTHER -> state

\* CommandHandler.process
exposed_queries_transition(cmd, state) ==
    CASE cmd = "CreateIssue" ->
           IF exposed_queries_can_create(state)
           THEN "IssueOpened" ELSE "InvalidTransition"
      [] cmd = "StartIssueProgress" ->
           IF exposed_queries_can_start(state)
           THEN "IssueProgressStarted" ELSE "InvalidTransition"
      [] cmd = "StopIssueProgress" ->
           IF exposed_queries_can_stop(state)
           THEN "IssueProgressStopped" ELSE "InvalidTransition"
      [] cmd = "CloseIssue" ->
           IF exposed_queries_can_close(state)
           THEN "IssueClosed" ELSE "InvalidTransition"
      [] cmd = "ReopenIssue" ->
           IF exposed_queries_can_reopen(state)
           THEN "IssueReopened" ELSE "InvalidTransition"
      [] cmd = "ResolveIssue" ->
           IF exposed_queries_can_resolve(state)
           THEN "IssueResolved" ELSE "InvalidTransition"

\* ----------------------------------------------------------- duck_typing.py
\* the classes Issue, Open, InProgress, Resolved, Closed: what calling
\* `method` on an instance of `cls` returns; a class has no other method, so
\* the call of one raises AttributeError
duck_typing_Issue(cls, method) ==
    CASE cls = "Issue" /\ method = "open" -> "Open"
      [] cls = "Open" /\ method = "start" -> "InProgress"
      [] cls = "Open" /\ method = "resolve" -> "Resolved"
      [] cls = "Open" /\ method = "close" -> "Closed"
      [] cls = "InProgress" /\ method = "stop" -> "Open"
      [] cls = "InProgress" /\ method = "resolve" -> "Resolved"
      [] cls = "InProgress" /\ method = "close" -> "Closed"
      [] cls = "Resolved" /\ method = "close" -> "Closed"
      [] cls = "Resolved" /\ method = "reopen" -> "Open"
      [] cls = "Closed" /\ method = "reopen" -> "Open"
      [] OTHER -> "AttributeError"

\* CommandHandler.get_issue: the method replay calls for an event class
duck_typing_replay_method(kind) ==
    CASE kind = "IssueOpened" -> "open"
      [] kind = "IssueProgressStarted" -> "start"
      [] kind = "IssueProgressStopped" -> "stop"
      [] kind = "IssueReopened" -> "reopen"
      [] kind = "IssueResolved" -> "resolve"
      [] kind = "IssueClosed" -> "close"

\* CommandHandler.process: the method a command asks for and the event class
\* it returns
duck_typing_process_method(cmd) ==
    CASE cmd = "CreateIssue" -> "open"
      [] cmd = "StartIssueProgress" -> "start"
      [] cmd = "StopIssueProgress" -> "stop"
      [] cmd = "CloseIssue" -> "close"
      [] cmd = "ReopenIssue" -> "reopen"
      [] cmd = "ResolveIssue" -> "resolve"

duck_typing_process_event(cmd) ==
    CASE cmd = "CreateIssue" -> "IssueOpened"
      [] cmd = "StartIssueProgress" -> "IssueProgressStarted"
      [] cmd = "StopIssueProgress" -> "IssueProgressStopped"
      [] cmd = "CloseIssue" -> "IssueClosed"
      [] cmd = "ReopenIssue" -> "IssueReopened"
      [] cmd = "ResolveIssue" -> "IssueResolved"

\* raise_invalid_unless_respond_to, then the method is called and the event
\* class returned
duck_typing_transition(cmd, cls) ==
    IF duck_typing_Issue(cls, duck_typing_process_method(cmd))
           = "AttributeError"
    THEN "InvalidTransition"
    ELSE duck_typing_process_event(cmd)

\* ------------------------------------------------------------ repository.py
repository_can_create(state) == state # "OPEN"

repository_can_start(state) == state \in {"OPEN", "REOPENED"}

repository_can_close(state) ==
    state \in {"OPEN", "IN_PROGRESS", "REOPENED", "RESOLVED"}

repository_can_reopen(state) == state \in {"CLOSED", "RESOLVED"}

repository_can_stop(state) == state = "IN_PROGRESS"

repository_can_resolve(state) ==
    state \in {"OPEN", "REOPENED", "IN_PROGRESS"}

\* Issue.create .. Issue.resolve: the guard of the method
repository_can(method, state) ==
    CASE method = "create" -> repository_can_create(state)
      [] method = "start" -> repository_can_start(state)
      [] method = "stop" -> repository_can_stop(state)
      [] method = "close" -> repository_can_close(state)
      [] method = "reopen" -> repository_can_reopen(state)
      [] method = "resolve" -> repository_can_resolve(state)

\* Issue.create .. Issue.resolve: the state the method sets
repository_state(method) ==
    CASE method = "create" -> "OPEN"
      [] method = "start" -> "IN_PROGRESS"
      [] method = "stop" -> "OPEN"
      [] method = "close" -> "CLOSED"
      [] method = "reopen" -> "REOPENED"
      [] method = "resolve" -> "RESOLVED"

\* Issue.create .. Issue.resolve: the event class the method registers
repository_event(method) ==
    CASE method = "create" -> "IssueOpened"
      [] method = "start" -> "IssueProgressStarted"
      [] method = "stop" -> "IssueProgressStopped"
      [] method = "close" -> "IssueClosed"
      [] method = "reopen" -> "IssueReopened"
      [] method = "resolve" -> "IssueResolved"

\* Issue._load: the method replay calls for an event class
repository_load_method(kind) ==
    CASE kind = "IssueOpened" -> "create"
      [] kind = "IssueProgressStarted" -> "start"
      [] kind = "IssueProgressStopped" -> "stop"
      [] kind = "IssueReopened" -> "reopen"
      [] kind = "IssueResolved" -> "resolve"
      [] kind = "IssueClosed" -> "close"

\* CommandHandler.process: the method a command calls
repository_process_method(cmd) ==
    CASE cmd = "CreateIssue" -> "create"
      [] cmd = "CloseIssue" -> "close"
      [] cmd = "StartIssueProgress" -> "start"
      [] cmd = "StopIssueProgress" -> "stop"
      [] cmd = "ReopenIssue" -> "reopen"
      [] cmd = "ResolveIssue" -> "resolve"

repository_transition(cmd, state) ==
    IF repository_can(repository_process_method(cmd), state)
    THEN repository_event(repository_process_method(cmd))
    ELSE "InvalidTransition"

\* ------------------------------------------------------------ load (replay)
\* the aggregate a handler holds between load and save: its state, its
\* version, the events it holds for the save, and the exception replay raised
\* ("-" for none) with its arguments
Snapshot(state, version) ==
    [state |-> state, version |-> version, pending |-> <<>>, exc |-> "-",
     args |-> <<>>]

\* mutant: Issue.apply without Aggregate.apply, the version stays as it was
aggregate_root_step_version_kept(snap, e) ==
    Snapshot(aggregate_root_apply(snap.state, e.kind), snap.version)

\* Issue.apply, then Aggregate.apply: self._version = event.originator_version
aggregate_root_step(snap, e) ==
    Snapshot(aggregate_root_apply(snap.state, e.kind), e.originator_version)

\* IssueState.apply: the status, then self.version = event.originator_version
extracted_state_step(snap, e) ==
    Snapshot(extracted_state_apply(snap.state, e.kind), e.originator_version)

\* apply(event, issue) -> Issue(id, state, event.originator_version, pending)
monad_step(snap, e) ==
    Snapshot(monad_apply(snap.state, e.kind), e.originator_version)

\* the body of get_issue's loop; the InvalidTransition a class raises ends
\* the loop and the call
polymorphic_step(snap, e) ==
    IF snap.exc # "-" THEN snap
    ELSE LET method == polymorphic_replay_method(e.kind)
             r == polymorphic_Issue(snap.state, method)
         IN  IF r = "InvalidTransition"
             THEN [snap EXCEPT !.exc = "InvalidTransition",
                               !.args = polymorphic_InvalidTransition(method)]
             ELSE Snapshot(r, e.originator_version)

\* IssueState.apply: the status, then self.version += 1
functional_step(snap, e) ==
    Snapshot(functional_apply(snap.state, e.kind), snap.version + 1)

\* the body of IssueProjection.__call__'s loop: enumerate(..., 1) counts the
\* events, so the version is one more than after the event before
exposed_queries_step(snap, e) ==
    Snapshot(exposed_queries_apply(snap.state, e.kind), snap.version + 1)

\* the body of get_issue's loop, counted by enumerate(..., 1); the
\* AttributeError of a method the class lacks ends the loop and the call (of
\* its message the model keeps the name of the attribute)
duck_typing_step(snap, e) ==
    IF snap.exc # "-" THEN snap
    ELSE LET method == duck_typing_replay_method(e.kind)
             r == duck_typing_Issue(snap.state, method)
         IN  IF r = "AttributeError"
             THEN [snap EXCEPT !.exc = "AttributeError",
                               !.args = <<Text(method)>>]
             ELSE Snapshot(r, snap.version + 1)

\* the body of Issue._load's loop: the transition method itself, guard
\* included, which registers its event in changes; self.version was set by
\* __init__ and stays; self.id is the id of the stream the events were
\* loaded from
repository_step(snap, e) ==
    IF snap.exc # "-" THEN snap
    ELSE LET method == repository_load_method(e.kind)
         IN  IF repository_can(method, snap.state)
             THEN [Snapshot(repository_state(method), snap.version)
                       EXCEPT !.pending =
                                  Append(snap.pending,
                                         Event(e.originator_id,
                                               snap.version + 1,
                                               repository_event(method)))]
             ELSE [snap EXCEPT !.exc = "InvalidTransition",
                               !.args = <<Text(method), ID(e.originator_id)>>]

\* the body of variant v's replay loop
Step(v, snap, e) ==
    CASE v = "aggregate_root" -> aggregate_root_step(snap, e)
      [] v = "extracted_state" -> extracted_state_step(snap, e)
      [] v = "monad" -> monad_step(snap, e)
      [] v = "polymorphic" -> polymorphic_step(snap, e)
      [] v = "functional" -> functional_step(snap, e)
      [] v = "exposed_queries" -> exposed_queries_step(snap, e)
      [] v = "duck_typing" -> duck_typing_step(snap, e)
      [] v = "repository" -> repository_step(snap, e)

\* mutant: replay starts from the aggregate the first handler holds
Fresh_cached(v) == Snapshot(call[1].state, call[1].version)

\* the fresh aggregate replay starts from: Issue(issue_id), IssueState(id),
\* Issue(issue_id, None, 0, pending), Init(); duck_typing's Issue()
Fresh(v) ==
    Snapshot(CASE v = "polymorphic" -> "Init"
               [] v = "duck_typing" -> "Issue"
               [] OTHER -> "None",
             0)

\* mutant: the events the replay registered stay in changes
repository_clear_skipped(snap) == snap

\* Issue.__init__: self.changes.clear() after self._load(events)
repository_clear(snap) == [snap EXCEPT !.pending = <<>>]

\* `for event in events: <step>`, from the fresh aggregate; repository's
\* Issue(issue_id, events, len(events)) sets the version before its _load
\* and clears its changes after it
Replay(v, events) ==
    LET fresh == IF v = "repository"
                 THEN Snapshot(Fresh(v).state, Len(events))
                 ELSE Fresh(v)
        f[i \in 0..Len(events)] ==
            IF i = 0 THEN fresh ELSE Step(v, f[i - 1], events[i])
    IN  IF v = "repository" THEN repository_clear(f[Len(events)])
        ELSE f[Len(events)]

\* Repository.apply (aggregate_root), CommandHandler.aggregate up to its
\* yield (extracted_state, monad), CommandHandler.get_issue (polymorphic)
Load(v, store, id) == Replay(v, EventStore_get(store, id))

\* Repository.apply(aggregate, version) on a fresh aggregate of variant v:
\* `for event in self.event_store.get(aggregate.id, to_version=version):
\* aggregate.apply(event)`
Repository_apply(v, store, id, version) ==
    Replay(v, EventStore_get_bounded(store, id, {}, version, FALSE, {}))

\* the transition method of variant v for cmd on the loaded state: the event
\* class it triggers, or "InvalidTransition"
Transition(v, cmd, state) ==
    CASE v = "aggregate_root" -> aggregate_root_transition(cmd, state)
      [] v = "extracted_state" -> extracted_state_transition(cmd, state)
      [] v = "monad" -> monad_transition(cmd, state)
      [] v = "polymorphic" -> polymorphic_transition(cmd, state)
      [] v = "functional" -> functional_transition(cmd, state)
      [] v = "exposed_queries" -> exposed_queries_transition(cmd, state)
      [] v = "duck_typing" -> duck_typing_transition(cmd, state)
      [] v = "repository" -> repository_transition(cmd, state)

\* the arguments variant v raises InvalidTransition with when it rejects
\* cmd for issue id: the name of the transition and the id of the aggregate
\* (functional's Close adds the state object); monad the command object;
\* polymorphic and duck_typing the name of the method alone
InvalidTransition(v, cmd, id) ==
    CASE v \in {"aggregate_root", "extracted_state", "exposed_queries",
                "repository"} ->
           <<Text(repository_process_method(cmd)), ID(id)>>
      [] v = "functional" ->
           IF cmd = "CloseIssue"
           THEN <<Text("close"), ID(id), IssueState(id)>>
           ELSE <<Text(repository_process_method(cmd)), ID(id)>>
      [] v = "monad" -> <<Command(cmd, id)>>
      [] v = "polymorphic" ->
           polymorphic_InvalidTransition(polymorphic_process_method(cmd))
      [] v = "duck_typing" -> <<Text(duck_typing_process_method(cmd))>>

\* the aggregate after the event of class `kind` was triggered on it:
\* Aggregate._trigger_event, Issue._trigger_event and trigger_event build the
\* event at version + 1 and apply it; polymorphic's __call__ builds the event
\* and leaves its local issue and version as loaded, and so do functional,
\* exposed_queries and duck_typing; repository's method sets the state and
\* registers the event, the version stays
Triggered(v, state, version, kind) ==
    CASE v = "aggregate_root" ->
           Snapshot(aggregate_root_apply(state, kind), version + 1)
      [] v = "extracted_state" ->
           Snapshot(extracted_state_apply(state, kind), version + 1)
      [] v = "monad" ->
           Snapshot(monad_apply(state, kind), version + 1)
      [] v = "polymorphic" ->
           Snapshot(state, version)
      [] v \in {"functional", "exposed_queries", "duck_typing"} ->
           Snapshot(state, version)
      [] v = "repository" ->
           Snapshot(repository_state(repository_load_method(kind)), version)

\* ------------------------------------------------------------------ state
Idle ==
    [pc |-> "idle", cmd |-> "-", id |-> 0, state |-> "None", version |-> 0,
     pending |-> <<>>, exc |-> "-", args |-> <<>>]

\* no call of the EventStore API was made yet
NoCall == [op |-> "-", id |-> 0, value |-> "None", exc |-> "-"]

EventsStored ==
    LET n[i \in 0..NumIssues] ==
            IF i = 0 THEN 0 ELSE n[i - 1] + Len(Stream(in_memory, i))
    IN  n[NumIssues]

InFlight ==
    Cardinality({h \in Handlers : call[h].pc \in {"loaded", "yielded"}})

Finished == {h \in Handlers : call[h].pc \in {"returned", "raised"}}

Init ==
    /\ variant \in Variants
    /\ in_memory = <<>>
    /\ call = [h \in Handlers |-> Idle]
    /\ event_sourcery = <<>>
    /\ returned = NoCall

\* handler h is called with command cmd for issue id and loads the issue
Call(h, cmd, id) ==
    /\ call[h].pc = "idle"
    /\ Finished = {}
    /\ EventsStored + InFlight
           < (IF InFlight = 0 THEN MaxEvents ELSE MaxRaceEvents)
    /\ LET snap == Load(variant, in_memory, id)
       IN  call' = [call EXCEPT ![h] =
                       [pc |-> IF snap.exc = "-" THEN "loaded" ELSE "raised",
                        cmd |-> cmd, id |-> id, state |-> snap.state,
                        version |-> snap.version, pending |-> snap.pending,
                        exc |-> snap.exc, args |-> snap.args]]
    /\ in_memory' = Touch(in_memory, id)
    /\ UNCHANGED <<variant, event_sourcery, returned>>

\* mutant: the exception of a rejected command is swallowed and the call goes
\* on to its save
Decide_no_raise(h) ==
    /\ call[h].pc = "loaded"
    /\ LET c == call[h]
           kind == Transition(variant, c.cmd, c.state)
           after == Triggered(variant, c.state, c.version, kind)
       IN  call' = [call EXCEPT ![h] =
                       IF kind = "InvalidTransition"
                       THEN [c EXCEPT !.pc = "yielded"]
                       ELSE [c EXCEPT !.pc = "yielded",
                                      !.state = after.state,
                                      !.version = after.version,
                                      !.pending =
                                          Append(c.pending,
                                                 Event(c.id, c.version + 1,
                                                       kind))]]
    /\ UNCHANGED <<variant, in_memory, event_sourcery, returned>>

\* the transition method runs on the loaded aggregate
Decide(h) ==
    /\ call[h].pc = "loaded"
    /\ LET c == call[h]
           kind == Transition(variant, c.cmd, c.state)
           after == Triggered(variant, c.state, c.version, kind)
       IN  call' = [call EXCEPT ![h] =
                       IF kind = "InvalidTransition"
                       THEN [c EXCEPT !.pc = "raised",
                                      !.exc = "InvalidTransition",
                                      !.args = InvalidTransition(
                                                   variant, c.cmd, c.id)]
                       ELSE [c EXCEPT !.pc = "yielded",
                                      !.state = after.state,
                                      !.version = after.version,
                                      !.pending =
                                          Append(c.pending,
                                                 Event(c.id, c.version + 1,
                                                       kind))]]
    /\ UNCHANGED <<variant, in_memory, event_sourcery, returned>>

\* the pending events are put to the store and the call returns
Save(h) ==
    /\ call[h].pc = "yielded"
    /\ in_memory' = EventStore_put(in_memory, call[h].pending)
    /\ call' = [call EXCEPT ![h].pc = "returned"]
    /\ UNCHANGED <<variant, event_sourcery, returned>>

\* the outcome of a finished call (return or exception) reaches its caller;
\* the aggregate is dropped
Return(h) ==
    /\ call[h].pc \in {"returned", "raised"}
    /\ call' = [call EXCEPT ![h] = Idle]
    /\ UNCHANGED <<variant, in_memory, event_sourcery, returned>>

Next ==
    \/ \E h \in Handlers, cmd \in Commands, id \in IssueIDs : Call(h, cmd, id)
    \/ \E h \in Handlers : Decide(h)
    \/ \E h \in Handlers : Save(h)
    \/ \E h \in Handlers : Return(h)

Spec == Init /\ [][Next]_vars

\* ------------------------------------------- the EventStore API, called directly
\* the events a caller puts: any stream, any version (the store reads only
\* the envelope of an event, never its class)
StoreEvents ==
    {Event(id, version, "IssueOpened") :
        id \in IssueIDs, version \in 1..MaxVersion}

StoreInit ==
    /\ variant = "-"
    /\ in_memory = <<>>
    /\ call = [h \in Handlers |-> Idle]
    /\ event_sourcery = <<>>
    /\ returned = NoCall

\* store.put(e) and store.put(e1, e2)
Put(events) ==
    /\ EventsStored + Len(events) <= MaxStored
    /\ in_memory' = EventStore_put(in_memory, events)
    /\ returned' = [op |-> "put", id |-> 0, value |-> "None", exc |-> "-"]
    /\ UNCHANGED <<variant, call, event_sourcery>>

\* list(store.get(id))
Get(id) ==
    /\ returned' = [op |-> "get", id |-> id,
                    value |-> EventStore_get(in_memory, id), exc |-> "-"]
    /\ in_memory' = Touch(in_memory, id)
    /\ UNCHANGED <<variant, call, event_sourcery>>

\* store.actual_version(id)
ActualVersion(id) ==
    /\ LET r == EventStore_actual_version(in_memory, id)
       IN  returned' = [op |-> "actual_version", id |-> id,
                        value |-> r.value, exc |-> r.exc]
    /\ UNCHANGED <<variant, in_memory, call, event_sourcery>>

StoreNext ==
    \/ \E e \in StoreEvents : Put(<<e>>)
    \/ \E e1, e2 \in StoreEvents : Put(<<e1, e2>>)
    \/ \E id \in IssueIDs : Get(id)
    \/ \E id \in IssueIDs : ActualVersion(id)

StoreSpec == StoreInit /\ [][StoreNext]_vars

\* ----------------------------------------------- the bounded read of a stream
\* The arguments of get a caller passes: None or a version for each bound,
\* None or a number of events for the limit.
OptionalVersions == {{}} \cup {{n} : n \in 0..MaxVersion}

OptionalLimits == {{}} \cup {{n} : n \in 0..MaxLimit}

ReadInit ==
    /\ variant = "aggregate_root"
    /\ in_memory = <<>>
    /\ call = [h \in Handlers |-> Idle]
    /\ event_sourcery = <<>>
    /\ returned = NoCall

\* list(store.get(id, after_version, to_version, desc, limit))
GetBounded(id, after_version, to_version, desc, limit) ==
    /\ returned' = [op |-> "get", id |-> id,
                    after_version |-> after_version,
                    to_version |-> to_version, desc |-> desc,
                    limit |-> limit,
                    value |-> EventStore_get_bounded(
                                  in_memory, id, after_version, to_version,
                                  desc, limit),
                    exc |-> "-"]
    /\ in_memory' = Touch(in_memory, id)
    /\ UNCHANGED <<variant, call, event_sourcery>>

\* issue = Issue(id); repository.apply(issue, version): the aggregate after
\* the call is the value recorded
RepositoryApply(id, version) ==
    /\ returned' = [op |-> "apply", id |-> id, to_version |-> version,
                    value |-> Repository_apply(variant, in_memory, id,
                                               version),
                    exc |-> "-"]
    /\ in_memory' = Touch(in_memory, id)
    /\ UNCHANGED <<variant, call, event_sourcery>>

ReadNext ==
    \/ \E e \in StoreEvents : Put(<<e>>)
    \/ \E id \in IssueIDs, after_version, to_version \in OptionalVersions,
          desc \in BOOLEAN, limit \in OptionalLimits :
           GetBounded(id, after_version, to_version, desc, limit)
    \/ \E id \in IssueIDs, version \in OptionalVersions :
           RepositoryApply(id, version)

ReadSpec == ReadInit /\ [][ReadNext]_vars

\* --------------------------------- a put in progress and concurrent readers
\* put is a loop of list.append calls and takes no lock: a thread that reads
\* runs between two iterations of the loop of a thread that puts. The record
\* of the putting thread holds the events of the put in pending and the
\* number of them already appended in version.
AppendInit ==
    /\ variant = "-"
    /\ in_memory = <<>>
    /\ call = [h \in Handlers |-> Idle]
    /\ event_sourcery = <<>>
    /\ returned = NoCall

\* thread h calls store.put(*events)
PutCall(h, events) ==
    /\ call[h].pc = "idle"
    /\ EventsStored + Len(events) <= MaxStored
    /\ call' = [call EXCEPT ![h] =
                   [Idle EXCEPT !.pc = "putting", !.pending = events]]
    /\ UNCHANGED <<variant, in_memory, event_sourcery, returned>>

\* one iteration of the loop: self._in_memory[event.originator_id].append
PutLoop(h) ==
    /\ call[h].pc = "putting"
    /\ call[h].version < Len(call[h].pending)
    /\ in_memory' =
           EventStore_put(in_memory, <<call[h].pending[call[h].version + 1]>>)
    /\ call' = [call EXCEPT ![h].version = @ + 1]
    /\ UNCHANGED <<variant, event_sourcery, returned>>

\* the loop is exhausted and put returns
PutReturn(h) ==
    /\ call[h].pc = "putting"
    /\ call[h].version = Len(call[h].pending)
    /\ call' = [call EXCEPT ![h] = Idle]
    /\ returned' = [op |-> "put", id |-> 0, value |-> "None", exc |-> "-"]
    /\ UNCHANGED <<variant, in_memory, event_sourcery>>

\* one thread puts two events at a time, another reads
AppendNext ==
    \/ \E e1, e2 \in StoreEvents : PutCall(1, <<e1, e2>>)
    \/ PutLoop(1)
    \/ PutReturn(1)
    \/ \E id \in IssueIDs : Get(id)

AppendSpec == AppendInit /\ [][AppendNext]_vars

\* ------------------------------------- handlers on the event_sourcery store
\* functional, exposed_queries, duck_typing and repository call
\* event_store.iter and event_store.publish of the event_sourcery package.
\* The package is not part of the repository: the model takes iter to return
\* the stream as published and publish either to append or to raise
\* ConcurrencyConflict and leave the store as it was, and runs these handlers
\* one call at a time; when the package raises, i.e. what it does with
\* expected_version, is not modelled.
PublishingVariants ==
    {"functional", "exposed_queries", "duck_typing", "repository"}

event_sourcery_iter(store, id) ==
    IF id \in DOMAIN store THEN store[id] ELSE <<>>

event_sourcery_publish(store, id, events, expected_version) ==
    (id :> event_sourcery_iter(store, id) \o events) @@ store

\* the expected_version argument of the handler's publish call, for the
\* version its load computed and the events it publishes
expected_version(v, version, events) ==
    IF v = "repository"
    THEN events[Len(events)].originator_version
    ELSE version + 1

EventsPublished ==
    LET n[i \in 0..NumIssues] ==
            IF i = 0 THEN 0
            ELSE n[i - 1] + Len(event_sourcery_iter(event_sourcery, i))
    IN  n[NumIssues]

PublishInit ==
    /\ variant \in PublishingVariants
    /\ in_memory = <<>>
    /\ call = [h \in Handlers |-> Idle]
    /\ event_sourcery = <<>>
    /\ returned = NoCall

\* handler h is called with command cmd for issue id and loads the issue
Iter(h, cmd, id) ==
    /\ \A g \in Handlers : call[g].pc = "idle"
    /\ EventsPublished < MaxEvents
    /\ LET snap == Replay(variant, event_sourcery_iter(event_sourcery, id))
       IN  call' = [call EXCEPT ![h] =
                       [pc |-> IF snap.exc = "-" THEN "loaded" ELSE "raised",
                        cmd |-> cmd, id |-> id, state |-> snap.state,
                        version |-> snap.version, pending |-> snap.pending,
                        exc |-> snap.exc, args |-> snap.args]]
    /\ UNCHANGED <<variant, in_memory, event_sourcery, returned>>

\* the event (repository: the changes) is published and the call returns
Publish(h) ==
    /\ call[h].pc = "yielded"
    /\ event_sourcery' =
           event_sourcery_publish(
               event_sourcery, call[h].id, call[h].pending,
               expected_version(variant, call[h].version, call[h].pending))
    /\ call' = [call EXCEPT ![h].pc = "returned"]
    /\ UNCHANGED <<variant, in_memory, returned>>

\* mutant: the handler catches the exception of publish and returns
Conflict_caught(h) ==
    /\ call[h].pc = "yielded"
    /\ call' = [call EXCEPT ![h].pc = "returned"]
    /\ UNCHANGED <<variant, in_memory, event_sourcery, returned>>

\* publish raises ConcurrencyConflict: no handler catches it, the call ends
\* with it
Conflict(h) ==
    /\ call[h].pc = "yielded"
    /\ call' = [call EXCEPT ![h].pc = "raised",
                            ![h].exc = "ConcurrencyConflict"]
    /\ UNCHANGED <<variant, in_memory, event_sourcery, returned>>

PublishNext ==
    \/ \E h \in Handlers, cmd \in Commands, id \in IssueIDs : Iter(h, cmd, id)
    \/ \E h \in Handlers : Decide(h)
    \/ \E h \in Handlers : Publish(h)
    \/ \E h \in Handlers : Conflict(h)
    \/ \E h \in Handlers : Return(h)

PublishSpec == PublishInit /\ [][PublishNext]_vars

\* --------------------------------------------------- replay of any history
\* every handler module, each with its own replay and fold
AllVariants == Variants \cup PublishingVariants

\* an event with the timestamp its constructor is given
TimedEvent(id, version, kind, timestamp) ==
    [originator_id |-> id, originator_version |-> version, kind |-> kind,
     timestamp |-> timestamp]

\* the lists of n events of versions 1..n, of any classes and timestamps, in
\* the order of the versions or (inserted) in any order
Histories(n, inserted) ==
    {[i \in 1..n |-> TimedEvent(1, p[i], k[i], t[i])] :
        p \in IF inserted THEN Permutations(1..n) ELSE {[i \in 1..n |-> i]},
        k \in [1..n -> EventKinds],
        t \in [1..n -> 1..MaxTimestamp]}

\* a store that holds one stream, of any history
FoldInit ==
    /\ variant \in AllVariants
    /\ \E n \in 0..MaxFold :
           \E history \in Histories(n, variant \in Variants) :
               IF variant \in Variants
               THEN in_memory = (1 :> history) /\ event_sourcery = <<>>
               ELSE in_memory = <<>> /\ event_sourcery = (1 :> history)
    /\ call = [h \in Handlers |-> Idle]
    /\ returned = NoCall

\* handler h rebuilds issue 1 from its stream, whatever it did before
Rebuild(h) ==
    /\ LET snap == IF variant \in Variants
                   THEN Load(variant, in_memory, 1)
                   ELSE Replay(variant,
                               event_sourcery_iter(event_sourcery, 1))
       IN  call' = [call EXCEPT ![h] =
                       [pc |-> IF snap.exc = "-" THEN "loaded" ELSE "raised",
                        cmd |-> "-", id |-> 1, state |-> snap.state,
                        version |-> snap.version, pending |-> snap.pending,
                        exc |-> snap.exc, args |-> snap.args]]
    /\ UNCHANGED <<variant, in_memory, event_sourcery, returned>>

\* the rebuilt issue of handler h folds one more event, of any class
Apply(h, kind, timestamp) ==
    /\ call[h].pc = "loaded"
    /\ LET c == call[h]
           snap == Step(variant, Snapshot(c.state, c.version),
                        TimedEvent(c.id, c.version + 1, kind, timestamp))
       IN  call' = [call EXCEPT ![h] =
                       [c EXCEPT !.pc = IF snap.exc = "-"
                                        THEN "applied" ELSE "raised",
                                 !.cmd = kind,
                                 !.state = snap.state,
                                 !.version = snap.version,
                                 !.exc = snap.exc,
                                 !.args = snap.args]]
    /\ UNCHANGED <<variant, in_memory, event_sourcery, returned>>

FoldNext ==
    \/ Rebuild(1)
    \/ \E kind \in EventKinds, timestamp \in 1..MaxTimestamp :
           Apply(1, kind, timestamp)

FoldSpec == FoldInit /\ [][FoldNext]_vars

\* ------------------------------------ several transitions on one aggregate
\* the handler modules whose aggregate keeps the events it triggered until
\* the save: Aggregate._pending_events, Issue._changes, Issue.pending,
\* Issue.changes
BufferingVariants == {"aggregate_root", "extracted_state", "monad", "repository"}

TriggerInit == FoldInit /\ variant \in BufferingVariants

\* the transition method of cmd is called on the aggregate handler h holds,
\* loaded or with events pending
Trigger(h, cmd) ==
    /\ call[h].pc \in {"loaded", "yielded"}
    /\ Len(call[h].pending) < MaxPending
    /\ LET c == call[h]
           kind == Transition(variant, cmd, c.state)
           after == Triggered(variant, c.state, c.version, kind)
       IN  call' = [call EXCEPT ![h] =
                       IF kind = "InvalidTransition"
                       THEN [c EXCEPT !.pc = "raised",
                                      !.cmd = cmd,
                                      !.exc = "InvalidTransition",
                                      !.args = InvalidTransition(
                                                   variant, cmd, c.id)]
                       ELSE [c EXCEPT !.pc = "yielded",
                                      !.cmd = cmd,
                                      !.state = after.state,
                                      !.version = after.version,
                                      !.pending =
                                          Append(c.pending,
                                                 Event(c.id, c.version + 1,
                                                       kind))]]
    /\ UNCHANGED <<variant, in_memory, event_sourcery, returned>>

TriggerNext ==
    \/ Rebuild(1)
    \/ \E cmd \in Commands : Trigger(1, cmd)

TriggerSpec == TriggerInit /\ [][TriggerNext]_vars

\* ===================================================================
\* The transition table of the specification (section 4.2) and the
\* vocabulary of the properties below
\* ===================================================================
\* the specification's name for the state a variant loads
SpecState(s) ==
    CASE s \in {"None", "Init", "Issue"} -> "absent"
      [] s = "Open" -> "OPEN"
      [] s = "InProgress" -> "IN_PROGRESS"
      [] s = "Closed" -> "CLOSED"
      [] s = "Resolved" -> "RESOLVED"
      [] OTHER -> s

LegalFrom(cmd) ==
    CASE cmd = "CreateIssue" ->
           {"absent", "CLOSED", "IN_PROGRESS", "REOPENED", "RESOLVED"}
      [] cmd = "StartIssueProgress" -> {"OPEN", "REOPENED"}
      [] cmd = "StopIssueProgress" -> {"IN_PROGRESS"}
      [] cmd = "CloseIssue" -> {"OPEN", "IN_PROGRESS", "REOPENED", "RESOLVED"}
      [] cmd = "ReopenIssue" -> {"CLOSED", "RESOLVED"}
      [] cmd = "ResolveIssue" -> {"OPEN", "REOPENED", "IN_PROGRESS"}

\* the kinds of the events a read of the stream returns, in order
Kinds(id) ==
    LET s == EventStore_get(in_memory, id)
    IN  [i \in 1..Len(s) |-> s[i].kind]

\* the highest version stored for the stream, 0 when it holds no event
LatestVersion(id) ==
    LET s == EventStore_get(in_memory, id)
    IN  IF s = <<>> THEN 0 ELSE s[Len(s)].originator_version

\* every stream reads the same before and after the step
HistoriesUnchanged ==
    \A id \in IssueIDs :
        EventStore_get(in_memory', id) = EventStore_get(in_memory, id)

\* the step is one of handler h's call
StepOf(h) == call'[h] # call[h]

\* the state the transition method of an accepted command produced
ResultState(h) ==
    IF variant = "polymorphic"
    THEN polymorphic_Issue(
             call[h].state, polymorphic_process_method(call[h].cmd))
    ELSE call'[h].state

\* the step appends exactly event e to its stream and nothing else
AppendsOnly(e) ==
    /\ Stream(in_memory', e.originator_id)
           = Append(Stream(in_memory, e.originator_id), e)
    /\ \A id \in IssueIDs \ {e.originator_id} :
           Stream(in_memory', id) = Stream(in_memory, id)

\* one row of the table, for every handler: cmd is accepted exactly from the
\* states in legal; accepted, it yields one pending event of class kind at
\* version + 1, the resulting state is new and save appends that event;
\* rejected, it raises InvalidTransition and the store is untouched
Row(cmd, legal, kind, new) ==
    \A h \in Handlers :
        LET c == call[h]
        IN  /\ (c.pc = "loaded" /\ c.cmd = cmd /\ StepOf(h)) =>
                   IF SpecState(c.state) \in legal
                   THEN /\ call'[h].pc = "yielded"
                        /\ call'[h].pending
                               = <<Event(c.id, c.version + 1, kind)>>
                        /\ SpecState(ResultState(h)) = new
                        /\ in_memory' = in_memory
                   ELSE /\ call'[h].pc = "raised"
                        /\ call'[h].exc = "InvalidTransition"
                        /\ in_memory' = in_memory
            /\ (c.pc = "yielded" /\ c.cmd = cmd /\ StepOf(h)) =>
                   /\ call'[h].pc = "returned"
                   /\ Len(c.pending) = 1
                   /\ c.pending[1].kind = kind
                   /\ AppendsOnly(c.pending[1])

\* ===================================================================
\* Properties
\* ===================================================================

\* two calls that are past their guard for the same stream with events of
\* the same version: they loaded the same currentVersion
Racing(h1, h2) ==
    /\ h1 # h2
    /\ call[h1].pending # <<>>
    /\ call[h2].pending # <<>>
    /\ call[h1].id = call[h2].id
    /\ call[h1].pending[1].originator_version
           = call[h2].pending[1].originator_version

\* C1: of two concurrent handle calls on one stream that loaded the same
\* currentVersion N and passed their guards, exactly one append succeeds and
\* the other call fails with ConcurrencyConflict; the stream then holds
\* exactly one event of version N + 1 and its latest version is N + 1.
C1_ExactlyOneWinner ==
    \A h1, h2 \in Handlers :
        (/\ Racing(h1, h2)
         /\ call[h1].pc \in {"returned", "raised"}
         /\ call[h2].pc \in {"returned", "raised"}) =>
            LET n1 == call[h1].pending[1].originator_version
                s == EventStore_get(in_memory, call[h1].id)
            IN  /\ \E w, l \in {h1, h2} :
                       /\ w # l
                       /\ call[w].pc = "returned"
                       /\ call[l].pc = "raised"
                       /\ call[l].exc = "ConcurrencyConflict"
                /\ Cardinality(
                       {i \in 1..Len(s) : s[i].originator_version = n1}) = 1
                /\ LatestVersion(call[h1].id) = n1

\* C2: in every reachable state each stream reads as events of the versions
\* 1..N, each exactly once and in order, N being the number of events (of
\* succeeded commands) it holds.
C2_GaplessVersions ==
    \A id \in IssueIDs :
        LET s == EventStore_get(in_memory, id)
        IN  \A i \in 1..Len(s) : s[i].originator_version = i

\* C3: the append is conditional: a save whose expected version (the version
\* the call loaded) differs from the stream's latest version at that moment
\* fails with ConcurrencyConflict and leaves the store unchanged; otherwise
\* it appends.
C3_ConditionalAppend ==
    [][\A h \in Handlers :
           (call[h].pc = "yielded" /\ StepOf(h)) =>
               LET e == call[h].pending[1]
               IN  IF LatestVersion(e.originator_id)
                          # e.originator_version - 1
                   THEN /\ call'[h].pc = "raised"
                        /\ call'[h].exc = "ConcurrencyConflict"
                        /\ in_memory' = in_memory
                   ELSE /\ call'[h].pc = "returned"
                        /\ AppendsOnly(e)]_vars

\* the call of record c is for a (state, command) pair outside the table
IllegalPair(c) ==
    /\ c.cmd \in Commands
    /\ SpecState(c.state) \notin LegalFrom(c.cmd)

C5_Create ==
    [][Row("CreateIssue",
           {"absent", "CLOSED", "IN_PROGRESS", "REOPENED", "RESOLVED"},
           "IssueOpened", "OPEN")]_vars

\* C6: ReopenIssue is accepted exactly from CLOSED and RESOLVED and rejected
\* with InvalidTransition from every other state; accepted, it appends one
\* Reopened event and the resulting state is REOPENED, which is not OPEN.
C6_Reopen ==
    [][Row("ReopenIssue", {"CLOSED", "RESOLVED"},
           "IssueReopened", "REOPENED")]_vars

TableEvent(cmd) ==
    CASE cmd = "CreateIssue" -> "IssueOpened"
      [] cmd = "StartIssueProgress" -> "IssueProgressStarted"
      [] cmd = "StopIssueProgress" -> "IssueProgressStopped"
      [] cmd = "CloseIssue" -> "IssueClosed"
      [] cmd = "ReopenIssue" -> "IssueReopened"
      [] cmd = "ResolveIssue" -> "IssueResolved"

\* no stream's list of events changes in the step
StreamsUnchanged ==
    \A id \in IssueIDs : Stream(in_memory', id) = Stream(in_memory, id)

\* C11: every handle call appends 0 or 1 event: an accepted command appends
\* exactly one event, of the class the table gives for the command, with
\* version = loaded version + 1, on the command's stream; a rejected command
\* appends none; no step of a call appends two or more events.
C11_ZeroOrOneEvent ==
    [][/\ EventsStored' \in {EventsStored, EventsStored + 1}
       /\ \A h \in Handlers :
              LET c == call[h]
              IN  /\ (c.pc \in {"idle", "raised", "returned"} /\ StepOf(h)) =>
                         StreamsUnchanged
                  /\ (c.pc = "loaded" /\ StepOf(h)) =>
                         /\ StreamsUnchanged
                         /\ \/ /\ call'[h].pc = "raised"
                               /\ call'[h].pending = <<>>
                            \/ /\ call'[h].pc = "yielded"
                               /\ call'[h].pending
                                      = <<Event(c.id, c.version + 1,
                                                TableEvent(c.cmd))>>
                  /\ (c.pc = "yielded" /\ StepOf(h)) =>
                         /\ call'[h].pc = "returned"
                         /\ Len(c.pending) = 1
                         /\ AppendsOnly(c.pending[1])
                         /\ EventsStored' = EventsStored + 1]_vars

\* a CloseIssue on an open issue returned: the stream holds the Opened event
\* and the one Closed event of version 2 the call appended
C11_Witness ==
    \E h \in Handlers :
        /\ call[h].pc = "returned"
        /\ call[h].cmd = "CloseIssue"
        /\ Stream(in_memory, call[h].id)
               = <<Event(call[h].id, 1, "IssueOpened"),
                   Event(call[h].id, 2, "IssueClosed")>>

\* the stream a step of handler h is for
StreamOf(h) == IF call[h].pc = "idle" THEN call'[h].id ELSE call[h].id

\* the store with every stream but id erased
OnlyStream(id) == (id :> Stream(in_memory, id))

\* C12: stream isolation: a step of a handle call for stream A, accepted or
\* rejected, leaves the events, the state and the version of every other
\* stream B unchanged, and what the call loads for A (hence its outcome) is
\* what it would load were every other stream empty.
C12_StreamIsolation ==
    [][\A h \in Handlers :
           StepOf(h) =>
               /\ \A b \in IssueIDs \ {StreamOf(h)} :
                      /\ Stream(in_memory', b) = Stream(in_memory, b)
                      /\ Load(variant, in_memory', b)
                             = Load(variant, in_memory, b)
               /\ call[h].pc = "idle" =>
                      LET alone == Load(variant, OnlyStream(StreamOf(h)),
                                        StreamOf(h))
                      IN  /\ call'[h].state = alone.state
                          /\ call'[h].version = alone.version
                          /\ call'[h].exc = alone.exc]_vars

\* a CreateIssue on one stream returned while a CloseIssue on another,
\* already opened, stream is between its guard and its save
C12_Witness ==
    \E h1, h2 \in Handlers :
        /\ call[h1].id # call[h2].id
        /\ call[h1].pc = "returned"
        /\ call[h1].cmd = "CreateIssue"
        /\ call[h2].pc = "yielded"
        /\ call[h2].cmd = "CloseIssue"
        /\ Kinds(call[h1].id) = <<"IssueOpened">>
        /\ Kinds(call[h2].id) = <<"IssueOpened">>

\* C13: in a handle call the load comes first, then the guard, then the
\* save: the save (the put of the pending events) runs exactly once, after
\* the transition method returned normally, and is never run when it raised;
\* no other step of the call appends anything.
C13_SaveOnceAfterGuard ==
    [][\A h \in Handlers :
           LET c == call[h]
           IN  StepOf(h) =>
                   CASE c.pc = "idle" ->
                          /\ call'[h].pc \in {"loaded", "raised"}
                          /\ StreamsUnchanged
                     [] c.pc = "loaded" ->
                          /\ StreamsUnchanged
                          /\ IF Transition(variant, c.cmd, c.state)
                                    = "InvalidTransition"
                             THEN call'[h].pc = "raised"
                             ELSE call'[h].pc = "yielded"
                     [] c.pc = "yielded" ->
                          /\ call'[h].pc = "returned"
                          /\ c.pending # <<>>
                          /\ in_memory' = EventStore_put(in_memory, c.pending)
                          /\ ~StreamsUnchanged
                     [] c.pc \in {"returned", "raised"} ->
                          /\ call'[h].pc = "idle"
                          /\ StreamsUnchanged]_vars

\* of two calls that loaded the same open issue, the ReopenIssue raised at its
\* guard and saved nothing, the CloseIssue returned and saved its one event
C13_Witness ==
    \E h1, h2 \in Handlers :
        /\ call[h1].id = call[h2].id
        /\ call[h1].pc = "raised"
        /\ call[h1].exc = "InvalidTransition"
        /\ call[h1].cmd = "ReopenIssue"
        /\ call[h2].pc = "returned"
        /\ call[h2].cmd = "CloseIssue"
        /\ Kinds(call[h1].id) = <<"IssueOpened", "IssueClosed">>

\* the version of the last event of the stream as published, 0 if none
PublishedVersion(id) ==
    LET s == event_sourcery_iter(event_sourcery, id)
    IN  IF s = <<>> THEN 0 ELSE s[Len(s)].originator_version

\* C14: when the guard passed, the handler publishes the new event with
\* version = currentVersion + 1 and passes expectedVersion = currentVersion,
\* currentVersion being the version of the last event folded during load
\* (0 if none).
C14_ExpectedVersion ==
    [][\A h \in Handlers :
           (call[h].pc = "yielded" /\ StepOf(h)) =>
               LET c == call[h]
                   currentVersion == PublishedVersion(c.id)
               IN  /\ c.pending
                          = <<Event(c.id, currentVersion + 1,
                                    TableEvent(c.cmd))>>
                   /\ expected_version(variant, c.version, c.pending)
                          = currentVersion]_vars

\* how many times event e occurs in the sequence s
Occurrences(e, s) == Cardinality({i \in 1..Len(s) : s[i] = e})

\* C15: a read of a stream returns its complete history (every event put,
\* as often as it was put) in ascending version order, whatever the order of
\* the puts, and the empty sequence for a stream without events.
C15_ReadSortedComplete ==
    returned.op = "get" =>
        LET got == returned.value
            put == Stream(in_memory, returned.id)
        IN  /\ \A i, j \in 1..Len(got) :
                   i < j => got[i].originator_version
                                <= got[j].originator_version
            /\ Len(got) = Len(put)
            /\ \A e \in StoreEvents : Occurrences(e, got) = Occurrences(e, put)
            /\ put = <<>> => got = <<>>

\* version 2 was put before version 1 (twice); the read returns 1, 1, 2
C15_Witness ==
    /\ returned.op = "get"
    /\ Stream(in_memory, returned.id)
           = <<Event(returned.id, 2, "IssueOpened"),
               Event(returned.id, 1, "IssueOpened"),
               Event(returned.id, 1, "IssueOpened")>>
    /\ returned.value
           = <<Event(returned.id, 1, "IssueOpened"),
               Event(returned.id, 1, "IssueOpened"),
               Event(returned.id, 2, "IssueOpened")>>

\* C16: a read is pure: a call of read, for a known or an unknown stream,
\* leaves the store as it was: every read and every latestVersion call
\* returns after it what it would have returned before it.
C16_ReadIsPure ==
    [][returned'.op = "get" =>
           \A id \in IssueIDs :
               /\ EventStore_get(in_memory', id) = EventStore_get(in_memory, id)
               /\ EventStore_actual_version(in_memory', id)
                      = EventStore_actual_version(in_memory, id)]_vars

\* the highest version among the events of a sequence
Highest(s) ==
    CHOOSE m \in {s[i].originator_version : i \in 1..Len(s)} :
        \A i \in 1..Len(s) : s[i].originator_version <= m

\* C17: latestVersion of a stream returns the highest version among its
\* events when it has any and none when it has no event, in every reachable
\* state of the store, also after a read of a stream never written.
C17_LatestVersion ==
    returned.op = "actual_version" =>
        LET s == Stream(in_memory, returned.id)
        IN  /\ returned.exc = "-"
            /\ returned.value = IF s = <<>> THEN {} ELSE {Highest(s)}

\* sequence s is a prefix of sequence t
IsPrefix(s, t) == Len(s) <= Len(t) /\ SubSeq(t, 1, Len(s)) = s

\* C18: the store is append-only: an event once visible in a stream is never
\* mutated or deleted, so what a read of a stream returns is a prefix of what
\* every later read of it returns, across every sequence of handle calls.
C18_ReadsArePrefixes ==
    [][\A id \in IssueIDs :
           IsPrefix(EventStore_get(in_memory, id),
                    EventStore_get(in_memory', id))]_vars

\* the New state column of the transition table, by event
TableState(kind) ==
    CASE kind = "IssueOpened" -> "OPEN"
      [] kind = "IssueProgressStarted" -> "IN_PROGRESS"
      [] kind = "IssueProgressStopped" -> "OPEN"
      [] kind = "IssueClosed" -> "CLOSED"
      [] kind = "IssueReopened" -> "REOPENED"
      [] kind = "IssueResolved" -> "RESOLVED"

\* handler h folds one event of class kind into the issue it rebuilt
Folds(h, kind) == call[h].pc = "loaded" /\ call'[h].cmd = kind

\* C19: fold is total: from each of the six states (absent included) and for
\* each of the six event classes it returns, without failing and whatever
\* the prior state, the state of the table's New state column; in particular
\* IssueProgressStopped folds to OPEN from every prior state.
C19_FoldIsTotal ==
    [][\A kind \in EventKinds :
           Folds(1, kind) =>
               /\ call'[1].exc = "-"
               /\ SpecState(call'[1].state) = TableState(kind)]_vars

\* the list stored for the stream that is replayed
Stored ==
    IF variant \in Variants THEN Stream(in_memory, 1)
    ELSE Stream(event_sourcery, 1)

\* the event classes of the stored list in the order of the versions, as
\* events of one timestamp
KindsInVersionOrder ==
    [i \in 1..Len(Stored) |->
        LET j == CHOOSE j \in 1..Len(Stored) : Stored[j].originator_version = i
        IN  TimedEvent(1, i, Stored[j].kind, 1)]

\* handler h has just rebuilt its issue
Rebuilt(h) == call[h].pc \in {"loaded", "raised"} /\ call[h].cmd = "-"

\* C20: replay is idempotent and deterministic: every replay of a stream,
\* the first as any later one, yields the same state and the same version,
\* and they depend on nothing but the sequence of the event classes in
\* version order, not on the timestamps nor on an earlier replay.
C20_ReplayDeterministic ==
    Rebuilt(1) =>
        LET snap == Replay(variant, KindsInVersionOrder)
        IN  /\ call[1].state = snap.state
            /\ call[1].version = snap.version
            /\ call[1].exc = snap.exc

\* an issue rebuilt from two events that were inserted against the order of
\* their versions and of their timestamps
C20_Witness ==
    /\ Rebuilt(1)
    /\ call[1].exc = "-"
    /\ Len(Stored) = 2
    /\ Stored[1].originator_version = 2
    /\ Stored[1].timestamp < Stored[2].timestamp
    /\ SpecState(call[1].state) = "CLOSED"

\* what handler module v decides for command cmd on the published stream of
\* issue id: the event class it publishes, "InvalidTransition" when it
\* rejects the command, or the exception its replay raises
Outcome(v, cmd, id) ==
    LET snap == Replay(v, event_sourcery_iter(event_sourcery, id))
    IN  IF snap.exc # "-" THEN snap.exc ELSE Transition(v, cmd, snap.state)

\* C21: all handler variants implement the same state machine: after every
\* sequence of commands on a fresh stream each of the eight variants accepts
\* or rejects the next command as every other does and appends an event of
\* the same class, the Create guard "state is not OPEN" included.
C21_SameStateMachine ==
    [][\A h \in Handlers :
           (call[h].pc = "loaded" /\ StepOf(h)) =>
               \A v \in AllVariants :
                   Outcome(v, call[h].cmd, call[h].id)
                       = IF call'[h].pc = "raised" THEN call'[h].exc
                         ELSE call'[h].pending[1].kind]_vars

\* the store without the last event of each stream, for the events of the
\* list from its last to its first
RECURSIVE WithoutLast(_, _)
WithoutLast(store, events) ==
    IF events = <<>> THEN store
    ELSE LET e == events[Len(events)]
             s == store[e.originator_id]
         IN  WithoutLast(
                 [store EXCEPT ![e.originator_id] = SubSeq(s, 1, Len(s) - 1)],
                 SubSeq(events, 1, Len(events) - 1))

\* the store as it was when the put in progress of thread h began, and as it
\* will be when that put has returned
BeforePut(h) ==
    WithoutLast(in_memory, SubSeq(call[h].pending, 1, call[h].version))

AfterPut(h) ==
    EventStore_put(in_memory,
                   SubSeq(call[h].pending, call[h].version + 1,
                          Len(call[h].pending)))

\* C22: the append is atomic for concurrent readers: what a read made while
\* a put of several events is in progress returned is the stream with none
\* or with all of the events of that put, never with a part of them.
C22_AtomicAppend ==
    (returned.op = "get" /\ call[1].pc = "putting") =>
        \/ returned.value = EventStore_get(BeforePut(1), returned.id)
        \/ returned.value = EventStore_get(AfterPut(1), returned.id)

\* no published stream changes in the step
PublishedUnchanged == event_sourcery' = event_sourcery

\* C23: a ConcurrencyConflict of the append reaches the caller of handle as
\* it is and nothing is retried: a call loads once and attempts one append;
\* when that append fails the call ends with ConcurrencyConflict, its next
\* step is the return of that exception, and neither step leaves an event of
\* the call in the stream.
C23_ConflictSurfaces ==
    [][\A h \in Handlers :
           LET c == call[h]
           IN  /\ (c.pc = "loaded" /\ StepOf(h)) =>
                      /\ call'[h].pc \in {"yielded", "raised"}
                      /\ PublishedUnchanged
               /\ (c.pc = "yielded" /\ StepOf(h)) =>
                      \/ /\ call'[h].pc = "returned"
                         /\ event_sourcery_iter(event_sourcery', c.id)
                                = event_sourcery_iter(event_sourcery, c.id)
                                      \o c.pending
                      \/ /\ call'[h].pc = "raised"
                         /\ call'[h].exc = "ConcurrencyConflict"
                         /\ PublishedUnchanged
               /\ (c.pc = "raised" /\ StepOf(h)) =>
                      /\ call'[h] = Idle
                      /\ PublishedUnchanged]_vars

\* a CloseIssue for an open issue passed its guard, its publish raised
\* ConcurrencyConflict and the stream still is the one Opened event
C23_Witness ==
    \E h \in Handlers :
        /\ call[h].pc = "raised"
        /\ call[h].exc = "ConcurrencyConflict"
        /\ call[h].cmd = "CloseIssue"
        /\ call[h].pending # <<>>
        /\ event_sourcery_iter(event_sourcery, call[h].id)
               = <<Event(call[h].id, 1, "IssueOpened")>>

\* what a handle call of module v for command cmd ends its guard with, given
\* nothing but the events of the command's stream: the exception it raises
\* and the events it is about to publish
HandleOutcome(v, cmd, id, events) ==
    LET snap == Replay(v, events)
        kind == Transition(v, cmd, snap.state)
    IN  IF snap.exc # "-"
        THEN [exc |-> snap.exc, pending |-> <<>>]
        ELSE IF kind = "InvalidTransition"
        THEN [exc |-> "InvalidTransition", pending |-> <<>>]
        ELSE [exc |-> "-", pending |-> <<Event(id, snap.version + 1, kind)>>]

\* C24: the core is stateless between calls: whether a command is accepted,
\* and with which event class and version, or rejected is a function of the
\* command type and of the persisted history of its stream alone: whichever
\* handler instance is called and whatever calls it made before, the outcome
\* is the one that command has on that history.
C24_Stateless ==
    [][\A h \in Handlers :
           (call[h].pc = "loaded" /\ StepOf(h)) =>
               LET outcome ==
                       HandleOutcome(
                           variant, call[h].cmd, call[h].id,
                           event_sourcery_iter(event_sourcery, call[h].id))
               IN  /\ call'[h].exc = outcome.exc
                   /\ call'[h].pending = outcome.pending]_vars

\* the second handler accepted a CloseIssue for an issue that earlier calls
\* opened and started
C24_Witness ==
    /\ call[2].pc = "yielded"
    /\ call[2].cmd = "CloseIssue"
    /\ call[2].pending = <<Event(call[2].id, 3, "IssueClosed")>>
    /\ event_sourcery_iter(event_sourcery, call[2].id)
           = <<Event(call[2].id, 1, "IssueOpened"),
               Event(call[2].id, 2, "IssueProgressStarted")>>

\* the name of a command's transition
CommandName(cmd) ==
    CASE cmd = "CreateIssue" -> "create"
      [] cmd = "StartIssueProgress" -> "start"
      [] cmd = "StopIssueProgress" -> "stop"
      [] cmd = "CloseIssue" -> "close"
      [] cmd = "ReopenIssue" -> "reopen"
      [] cmd = "ResolveIssue" -> "resolve"

\* the arguments hold the name of command cmd, as a text or as the class of
\* a command object
CarriesName(args, cmd) ==
    \E i \in 1..Len(args) :
        /\ args[i].tag \in {"str", "Command"}
        /\ args[i].name \in {cmd, CommandName(cmd)}

\* the arguments hold the issue id, as such or as the id of an object
CarriesId(args, id) ==
    \E i \in 1..Len(args) :
        /\ args[i].tag \in {"IssueID", "Command", "IssueState"}
        /\ args[i].id = id

\* C25: the InvalidTransition a rejected command raises carries the name of
\* the rejected command and the id of the stream it was sent to, in every
\* handler variant and for every command.
C25_InvalidTransitionArgs ==
    [][\A h \in Handlers :
           (call[h].pc = "loaded" /\ call'[h].pc = "raised") =>
               /\ call'[h].exc = "InvalidTransition"
               /\ CarriesName(call'[h].args, call[h].cmd)
               /\ CarriesId(call'[h].args, call[h].id)]_vars

\* the command the table gives for an event class
TableCommand(kind) == CHOOSE cmd \in Commands : TableEvent(cmd) = kind

\* the list of events s is a path of the table: the command of each event
\* is legal in the state the events before it fold to
LegalPath(s) ==
    \A i \in 1..Len(s) :
        (IF i = 1 THEN "absent" ELSE TableState(s[i - 1].kind))
            \in LegalFrom(TableCommand(s[i].kind))

\* C26: every persisted history is a legal path of the state machine: in
\* every reachable state, under any interleaving of handle calls, each
\* stream reads as events of which each one's command was legal in the state
\* the events before it fold to.
C26_HistoriesAreLegalPaths ==
    \A id \in IssueIDs : LegalPath(EventStore_get(in_memory, id))

\* C27: replay never fails: every stream history that handle calls,
\* sequential or interleaved, produce is one the load of a later call
\* replays to a state, so no stream becomes unloadable and a call ends only
\* in success, in the InvalidTransition of its guard or in
\* ConcurrencyConflict.
C27_ReplayNeverFails ==
    /\ \A id \in IssueIDs : Load(variant, in_memory, id).exc = "-"
    /\ \A h \in Handlers :
           /\ call[h].exc \in {"-", "InvalidTransition", "ConcurrencyConflict"}
           /\ call[h].exc = "InvalidTransition" =>
                  Load(variant, in_memory, call[h].id).exc = "-"

\* the list of events s replays, in every handler module that replays it
\* without an exception, to version n
ReplaysToVersion(s, n) ==
    \A v \in AllVariants :
        Replay(v, s).exc = "-" => Replay(v, s).version = n

\* C28: the currentVersion a load computes is the version of the last event
\* of the stream and the number of its events (0 for an empty stream), so
\* the variants that count the events and those that copy the version of
\* the last event compute the same currentVersion in every reachable state.
C28_VersionIsCount ==
    \A id \in IssueIDs :
        LET s == EventStore_get(in_memory, id)
        IN  /\ LatestVersion(id) = Len(s)
            /\ ReplaysToVersion(s, Len(s))

\* C29: when several transitions are triggered on one aggregate loaded at
\* version v before it is saved, the k pending events carry the versions
\* v + 1 .. v + k in the order they were triggered and the version of the
\* aggregate is v + k.
C29_PendingVersionsContiguous ==
    call[1].pc = "yielded" =>
        LET v == Len(Stored)
            k == Len(call[1].pending)
        IN  /\ \A i \in 1..k : call[1].pending[i].originator_version = v + i
            /\ call[1].version = v + k

\* C30: after the load and before the transition method runs the pending
\* buffer of the aggregate is empty, so the save appends the event of the
\* current command alone and never again an event of the history, also in
\* the repository variant, whose replay runs the transition methods that
\* register events.
C30_PendingEmptyAfterLoad ==
    [][\A h \in Handlers :
           LET c == call[h]
               s == event_sourcery_iter(event_sourcery, c.id)
           IN  /\ (c.pc = "idle" /\ StepOf(h) /\ call'[h].exc = "-") =>
                      call'[h].pending = <<>>
               /\ (c.pc = "yielded" /\ call'[h].pc = "returned") =>
                      event_sourcery_iter(event_sourcery', c.id)
                          = Append(s, Event(c.id, Len(s) + 1,
                                            TableEvent(c.cmd)))]_vars

\* the repository variant replayed an Opened event through create() and then
\* saved a CloseIssue: the stream holds the Opened event once
C30_Witness ==
    \E h \in Handlers :
        /\ variant = "repository"
        /\ call[h].pc = "returned"
        /\ call[h].cmd = "CloseIssue"
        /\ event_sourcery_iter(event_sourcery, call[h].id)
               = <<Event(call[h].id, 1, "IssueOpened"),
                   Event(call[h].id, 2, "IssueClosed")>>

\* the state the variant derives from the stream is the absent one
Absent(store, id) == SpecState(Load(variant, store, id).state) = "absent"

\* C31: the state of a stream is absent if and only if its version is 0,
\* i.e. it holds no event; exactly one of absent, OPEN, IN_PROGRESS,
\* REOPENED, RESOLVED, CLOSED holds for it in every reachable state, and a
\* stream that has left the absent state never becomes absent again.
C31_AbsentIffVersionZero ==
    /\ [](\A id \in IssueIDs :
             LET l == Load(variant, in_memory, id)
             IN  /\ Absent(in_memory, id) <=> (l.version = 0)
                 /\ (l.version = 0) <=> (Stream(in_memory, id) = <<>>)
                 /\ Cardinality({st \in {"absent", "OPEN", "IN_PROGRESS",
                                         "REOPENED", "RESOLVED", "CLOSED"} :
                                    st = SpecState(l.state)}) = 1)
    /\ [][\A id \in IssueIDs :
             ~Absent(in_memory, id) => ~Absent(in_memory', id)]_vars

\* one stream took a command and then a second one while the other stream
\* is still absent at version 0
C31_Witness ==
    \E a, b \in IssueIDs :
        /\ Len(Stream(in_memory, a)) = 2
        /\ Load(variant, in_memory, a).version = 2
        /\ ~Absent(in_memory, a)
        /\ Stream(in_memory, b) = <<>>
        /\ Absent(in_memory, b)

\* the commands the transition methods of variant v accept in state s
Accepted(v, s) ==
    {cmd \in Commands : Transition(v, cmd, s) # "InvalidTransition"}

\* the state variant v derives once the event of the accepted command cmd
\* follows a history that folds to s
After(v, s, cmd) ==
    Step(v, Snapshot(s, 0), Event(1, 1, Transition(v, cmd, s))).state

\* the states one accepted command leads to from a state of the set S
Successors(v, S) ==
    UNION {{After(v, s, cmd) : cmd \in Accepted(v, s)} : s \in S}

\* S and the states up to n accepted commands lead to from it
RECURSIVE Closure(_, _, _)
Closure(v, S, n) ==
    IF n = 0 THEN S ELSE Closure(v, S \cup Successors(v, S), n - 1)

\* the states some sequence of accepted commands leads to from s
ReachableFrom(v, s) == Closure(v, {s}, Cardinality(State))

\* s is not a dead state of variant v
Alive(v, s) ==
    /\ Accepted(v, s) # {}
    /\ SpecState(s) # "absent" =>
           \E t \in ReachableFrom(v, s) : SpecState(t) = "CLOSED"

InBounds(version, after_version, to_version) ==
    /\ \A a \in after_version : a < version
    /\ \A t \in to_version : version <= t

\* the events of the stream the last read was bounded to, each as often as
\* the stream holds it
ReadWithinBounds ==
    \A e \in StoreEvents :
        Occurrences(e, returned.value)
            = IF /\ e.originator_id = returned.id
                 /\ InBounds(e.originator_version, returned.after_version,
                             returned.to_version)
              THEN Occurrences(e, Stream(in_memory, returned.id))
              ELSE 0

\* C33: the bounded read of the in-memory store returns exactly the events
\* whose version v satisfies after_version < v <= to_version for every bound
\* that is given, the bound 0 included: get(id, to_version=0) returns no
\* event, and Repository.apply(aggregate, version=0) leaves the aggregate at
\* version 0 in the absent state.
C33_BoundedRead ==
    /\ (returned.op = "get" /\ returned.limit = {}) => ReadWithinBounds
    /\ (returned.op = "get" /\ returned.to_version = {0}) =>
           returned.value = <<>>
    /\ (returned.op = "apply" /\ returned.to_version = {0}) =>
           /\ returned.value.version = 0
           /\ SpecState(returned.value.state) = "absent"

====
